---- MODULE Spec2Model ----
(***************************************************************************)
(* A model of mirror (src/src/main.rs): the startup sequence main_intl,    *)
(* the sync pipeline sync / sync_intl / unzip, the scheduler jobs and the  *)
(* admin HTTP handler, over a small file system (data/<name> and           *)
(* tmp/<name>.zip with Unix unlink semantics: an open handle keeps its     *)
(* file after the path is removed).                                        *)
(*                                                                         *)
(* Every `.await` of sync_intl and every archive entry of unzip is one     *)
(* step: the tokio runtime is multi-threaded, so spawned syncs interleave  *)
(* at those points.                                                        *)
(***************************************************************************)
EXTENDS Integers, Sequences, FiniteSets, TLC

VARIABLES
    configFile,   \* what reading mirror.yml yields (fixed during a run)
    config,       \* GLOBAL_CONFIG
    main,         \* position of main_intl: [pc, i]
    task,         \* the spawned sync futures, by slot
    tmp,          \* tmp/<name>.zip: the file the path names, or NoFile
    inode,        \* contents of the temporary files, by file id
    data,         \* data/<name>: the serving directories
    jobs,         \* the mirrors with a registered scheduler job
    schedStarted, \* scheduler.start() has run
    serving,      \* the mirrors whose content server is bound
    adminUp,      \* the admin server is bound
    response      \* the last reply of admin_handler

vars == <<configFile, config, main, task, tmp, inode, data, jobs,
          schedStarted, serving, adminUp, response>>

----------------------------------------------------------------------------
(* Bounds *)

\* sync futures in flight at once (startup, scheduler and admin together)
MaxSyncs == 2

Slots == 1..MaxSyncs

----------------------------------------------------------------------------
(* Option values *)

None == [some |-> FALSE, val |-> << >>]
Some(x) == [some |-> TRUE, val |-> x]

----------------------------------------------------------------------------
(* Configuration *)

NameA == <<"a">>
NameB == <<"b">>
Names == {NameA, NameB}
NoName == <<>>

\* a mirror: its name, its source URL, and whether it has a `sync` cron
\* expression and a `serve` address
Mirror(name, source, sync, serve) ==
    [name |-> name, source |-> source, sync |-> sync, serve |-> serve]

Config(mirrors, admin) == [mirrors |-> mirrors, admin_server |-> admin]

NoConfig == Config(<<>>, FALSE)

\* mirror.yml as found on disk: missing at both places, not YAML of the
\* Config shape, or a Config
Parsed(cfg) == [kind |-> "parsed", cfg |-> cfg]

\* configurations without an admin server
PlainConfigFiles ==
    { [kind |-> "unreadable", cfg |-> NoConfig],
      [kind |-> "unparsable", cfg |-> NoConfig],
      Parsed(Config(<< >>, FALSE)),
      Parsed(Config(<< Mirror(NameA, "srcA", TRUE, TRUE) >>, FALSE)),
      Parsed(Config(<< Mirror(NameA, "srcA", TRUE, TRUE),
                       Mirror(NameB, "srcB", FALSE, FALSE) >>, FALSE)) }

\* configurations with an admin server
AdminConfigFiles ==
    { Parsed(Config(<< Mirror(NameA, "srcB", TRUE, TRUE) >>, TRUE)),
      Parsed(Config(<< Mirror(NameA, "srcDown", TRUE, TRUE),
                       Mirror(NameB, "srcDown", FALSE, FALSE) >>, TRUE)) }

ConfigFiles == PlainConfigFiles \cup AdminConfigFiles

\* admin_server.token and the "Bearer " prefix, as bytes
Token == <<116>>
Bearer == <<66, 101, 97, 114, 101, 114, 32>>

----------------------------------------------------------------------------
(* Archives served by the sources *)

Absent == "absent"

FileEntry(name, bytes) == [name |-> name, slash |-> FALSE, bytes |-> bytes]
DirEntry(name) == [name |-> name, slash |-> TRUE, bytes |-> Absent]

PathA == <<"a">>
PathSubB == <<"sub", "b">>
PathEscape == <<"..", "x">>
PathRooted == <<"/", "x">>
PathD == <<"d">>
PathSub == <<"sub">>

\* the entries of each archive, in central-directory order
Entries(b) ==
    CASE b = "A1" -> << FileEntry(PathA, "a1"), FileEntry(PathSubB, "b1") >>
      [] b = "A2" -> << FileEntry(PathEscape, "x2"), DirEntry(PathD),
                      FileEntry(PathRooted, "r2"), FileEntry(PathA, "a2") >>
      [] OTHER -> << >>

\* the bodies a source may send: two zip archives, and one that is no archive
Bodies == {"A1", "A2", "Bad"}
ValidBodies == {"A1", "A2"}
NoBody == "-"

\* what a source may answer with status 200 (srcDown: never)
Upstream(source) ==
    CASE source = "srcA" -> Bodies
      [] source = "srcB" -> {"A1"}
      [] OTHER -> {}

\* a body arrives as NChunks chunks; a chunk is named by the body it is from
NChunks == 1
Chunks(b) == [k \in 1..NChunks |-> b]

\* the statuses a source may answer
Statuses == {200, 204, 404}

FilePaths == {PathA, PathSubB, PathEscape, PathRooted}
DirPaths == {PathSub, PathD}

----------------------------------------------------------------------------
(* Admin requests *)

SyncPrefix == <<"/", "s", "y", "n", "c", "/">>

Auths ==
    { None,
      Some(Bearer \o Token),
      Some(Bearer \o <<120>>),
      Some(Bearer \o <<255>>) }

ReqPaths ==
    { SyncPrefix \o NameA,
      SyncPrefix \o NameB,
      <<"/", "x">> }

Requests == [auth : Auths, method : {"POST", "GET"}, path : ReqPaths]

\* response statuses; NoResponse: the handler returned Err and hyper closes
\* the connection without a response
StatusOK == 200
StatusForbidden == 403
StatusNotFound == 404
StatusMethodNotAllowed == 405
NoResponse == 0

----------------------------------------------------------------------------
(* Initial state: the process has started, nothing is loaded; the disk    *)
(* holds no serving directory and no temporary file.                      *)

NoFile == 0

\* ids for the temporary files that can exist at once: one per handle and
\* one per path that no handle holds
Files == 1..(MaxSyncs + Cardinality(Names) - 1)

NoTask ==
    [pc |-> "none", mirror |-> NoName, source |-> "-", body |-> NoBody,
     archive |-> NoBody, handle |-> NoFile, i |-> 0]

EmptyDir == [exists |-> FALSE, dirs |-> {}, files |-> [p \in FilePaths |-> Absent]]

Init ==
    /\ configFile \in ConfigFiles
    /\ config = NoConfig
    /\ main = [pc |-> "load", i |-> 0]
    /\ task = [t \in Slots |-> NoTask]
    /\ tmp = [m \in Names |-> NoFile]
    /\ inode = [k \in Files |-> << >>]
    /\ data = [m \in Names |-> EmptyDir]
    /\ jobs = {}
    /\ schedStarted = FALSE
    /\ serving = {}
    /\ adminUp = FALSE
    /\ response = [status |-> NoResponse, spawned |-> 0]

----------------------------------------------------------------------------
(* Helpers *)

\* the process is running: main_intl has neither failed (exit(1)) nor returned
Alive == main.pc \notin {"exit1", "bye"}

InFlightPcs == {"start", "remove", "open", "copy", "unzip", "extract", "cleanup"}
InFlight(t) == task[t].pc \in InFlightPcs
\* how a sync ended: Ok, or the Err that sync logs, by where it arose
\* (the fetch, lines 238-260; unzip, line 266; the last remove_file, line 268)
ErrPcs == {"fetch_err", "install_err", "remove_err"}
Ended(t) == task[t].pc \in {"ok"} \cup ErrPcs

\* the slot the next spawned future takes (0: MaxSyncs are in flight)
FreeSlot ==
    IF \E t \in Slots : ~InFlight(t)
    THEN CHOOSE t \in Slots : ~InFlight(t) /\ \A u \in 1..(t - 1) : InFlight(u)
    ELSE 0

\* mutant of Spawned: the sync is awaited, not spawned, and has ended (here
\* with a failed fetch) when the caller goes on
SpawnedAndAwaited(tk, t, mirror) ==
    [tk EXCEPT ![t] = [NoTask EXCEPT !.pc = "fetch_err", !.mirror = mirror.name]]

\* spawn(sync(mirror)): the future starts at the top of sync_intl
Spawned(tk, t, mirror) ==
    [tk EXCEPT ![t] = [NoTask EXCEPT !.pc = "start", !.mirror = mirror.name,
                                     !.source = mirror.source]]

\* sync returns: Ok, or the error is logged; the future and what it held are dropped
Finished(tk, t, outcome) == [tk EXCEPT ![t] = [NoTask EXCEPT !.pc = outcome, !.mirror = tk[t].mirror]]

\* a file that no path names and no handle holds is freed
Collect(ino, tm, tk) ==
    [k \in Files |->
        IF (\E m \in Names : tm[m] = k) \/ (\E t \in Slots : tk[t].handle = k)
        THEN ino[k] ELSE << >>]

----------------------------------------------------------------------------
(* main_intl *)

\* mutant of LoadConfig: an empty mirror list is no error, the loop over the
\* mirrors runs zero times and startup goes on
LoadConfigAllowsEmpty ==
    /\ main.pc = "load"
    /\ IF configFile.kind # "parsed"
       THEN /\ main' = [pc |-> "exit1", i |-> 0]
            /\ UNCHANGED config
       ELSE /\ config' = configFile.cfg
            /\ main' = IF Len(configFile.cfg.mirrors) = 0
                       THEN [pc |-> "admin", i |-> 0]
                       ELSE [pc |-> "mirrors", i |-> 1]
    /\ UNCHANGED <<configFile, task, tmp, inode, data, jobs, schedStarted,
                   serving, adminUp, response>>

\* lines 79-99: read and parse mirror.yml; an unreadable or unparsable file
\* or an empty mirror list is an Err, and main exits with status 1
LoadConfig ==
    /\ main.pc = "load"
    /\ IF configFile.kind # "parsed"
       THEN /\ main' = [pc |-> "exit1", i |-> 0]
            /\ UNCHANGED config
       ELSE /\ config' = configFile.cfg
            /\ main' = IF Len(configFile.cfg.mirrors) = 0
                       THEN [pc |-> "exit1", i |-> 0]
                       ELSE [pc |-> "mirrors", i |-> 1]
    /\ UNCHANGED <<configFile, task, tmp, inode, data, jobs, schedStarted,
                   serving, adminUp, response>>

\* mutant of InitMirror: a job is registered for every mirror, with or
\* without a `sync` expression
InitMirrorSchedulesAll ==
    /\ main.pc = "mirrors"
    /\ LET mirror == config.mirrors[main.i]
           m == mirror.name
       IN /\ FreeSlot # 0
          /\ data' = [data EXCEPT ![m].exists = TRUE]
          /\ task' = Spawned(task, FreeSlot, mirror)
          /\ jobs' = jobs \cup {m}
          /\ serving' = IF mirror.serve THEN serving \cup {m} ELSE serving
          /\ main' = IF main.i = Len(config.mirrors)
                     THEN [pc |-> "admin", i |-> 0]
                     ELSE [pc |-> "mirrors", i |-> main.i + 1]
    /\ UNCHANGED <<configFile, config, tmp, inode, schedStarted, adminUp, response>>

\* lines 101-138: one iteration of the loop over config.mirrors
InitMirror ==
    /\ main.pc = "mirrors"
    /\ LET mirror == config.mirrors[main.i]
           m == mirror.name
       IN /\ FreeSlot # 0
          /\ data' = [data EXCEPT ![m].exists = TRUE]
          /\ task' = Spawned(task, FreeSlot, mirror)
          /\ jobs' = IF mirror.sync THEN jobs \cup {m} ELSE jobs
          /\ serving' = IF mirror.serve THEN serving \cup {m} ELSE serving
          /\ main' = IF main.i = Len(config.mirrors)
                     THEN [pc |-> "admin", i |-> 0]
                     ELSE [pc |-> "mirrors", i |-> main.i + 1]
    /\ UNCHANGED <<configFile, config, tmp, inode, schedStarted, adminUp, response>>

\* lines 140-148
StartAdmin ==
    /\ main.pc = "admin"
    /\ adminUp' = config.admin_server
    /\ main' = [pc |-> "sched", i |-> 0]
    /\ UNCHANGED <<configFile, config, task, tmp, inode, data, jobs,
                   schedStarted, serving, response>>

\* line 150
StartScheduler ==
    /\ main.pc = "sched"
    /\ schedStarted' = TRUE
    /\ main' = [pc |-> "wait", i |-> 0]
    /\ UNCHANGED <<configFile, config, task, tmp, inode, data, jobs,
                   serving, adminUp, response>>

\* lines 152-155: ctrl_c resolves, main_intl returns Ok and the runtime is
\* dropped with whatever was in flight
CtrlC ==
    /\ main.pc = "wait"
    /\ main' = [pc |-> "bye", i |-> 0]
    /\ UNCHANGED <<configFile, config, task, tmp, inode, data, jobs,
                   schedStarted, serving, adminUp, response>>

----------------------------------------------------------------------------
(* Scheduler *)

\* the mirror a name stands for: the first of the configuration with it
MirrorOf(cfg, name) ==
    cfg.mirrors[CHOOSE k \in 1..Len(cfg.mirrors) :
                    /\ cfg.mirrors[k].name = name
                    /\ \A j \in 1..(k - 1) : cfg.mirrors[j].name # name]

\* lines 113-118: the scheduler runs the job of mirror m
SchedulerTick(m) ==
    /\ Alive
    /\ schedStarted
    /\ m \in jobs
    /\ FreeSlot # 0
    /\ task' = Spawned(task, FreeSlot, MirrorOf(config, m))
    /\ UNCHANGED <<configFile, config, main, tmp, inode, data, jobs,
                   schedStarted, serving, adminUp, response>>

----------------------------------------------------------------------------
(* sync / sync_intl *)

\* what `get(&mirror.source).await` may yield: a transport error, or a
\* response with a status and, for 200, a body
Responses(source) ==
    { [ok |-> FALSE, status |-> NoResponse, body |-> NoBody] }
      \cup { [ok |-> TRUE, status |-> s, body |-> NoBody] : s \in Statuses \ {StatusOK} }
      \cup { [ok |-> TRUE, status |-> StatusOK, body |-> b] : b \in Upstream(source) }

\* mutant of Accepted: every 2xx status lets the attempt go on
AcceptedAny2xx(r) == r.ok /\ r.status \in 200..299

\* line 240: only status 200 lets the attempt go on
Accepted(r) == r.ok /\ r.status = StatusOK

\* mutant of Fetch: a failed fetch empties the serving directory
FetchClearsOnFailure(t) ==
    /\ Alive
    /\ task[t].pc = "start"
    /\ \E r \in Responses(task[t].source) :
          IF Accepted(r)
          THEN /\ task' = [task EXCEPT ![t].pc = "remove", ![t].source = "-", ![t].body = r.body]
               /\ data' = data
          ELSE /\ task' = Finished(task, t, "fetch_err")
               /\ data' = [data EXCEPT ![task[t].mirror].files = [p \in FilePaths |-> Absent]]
    /\ UNCHANGED <<configFile, config, main, tmp, inode, jobs,
                   schedStarted, serving, adminUp, response>>

\* lines 233-246: the request to the source and the status check
Fetch(t) ==
    /\ Alive
    /\ task[t].pc = "start"
    /\ \E r \in Responses(task[t].source) :
          task' = IF Accepted(r)
                  THEN [task EXCEPT ![t].pc = "remove", ![t].source = "-", ![t].body = r.body]
                  ELSE Finished(task, t, "fetch_err")
    /\ UNCHANGED <<configFile, config, main, tmp, inode, data, jobs,
                   schedStarted, serving, adminUp, response>>

\* line 248: `let _ = remove_file(&filepath).await`
RemoveStale(t) ==
    /\ Alive
    /\ task[t].pc = "remove"
    /\ LET m == task[t].mirror
           tm == [tmp EXCEPT ![m] = NoFile]
           tk == [task EXCEPT ![t].pc = "open"]
       IN /\ tmp' = tm
          /\ task' = tk
          /\ inode' = Collect(inode, tm, tk)
    /\ UNCHANGED <<configFile, config, main, data, jobs,
                   schedStarted, serving, adminUp, response>>

\* the id a newly created file gets: the lowest one not in use
NewFile ==
    CHOOSE k \in Files :
        /\ \A m \in Names : tmp[m] # k
        /\ \A t \in Slots : task[t].handle # k
        /\ \A j \in 1..(k - 1) : (\E m \in Names : tmp[m] = j) \/ (\E t \in Slots : task[t].handle = j)

\* lines 250-255: open with create(true) and no truncate: the file the path
\* names if there is one, else a new empty file; the handle starts at offset 0
Open(t) ==
    /\ Alive
    /\ task[t].pc = "open"
    /\ LET m == task[t].mirror
           h == IF tmp[m] = NoFile THEN NewFile ELSE tmp[m]
       IN /\ tmp' = [tmp EXCEPT ![m] = h]
          /\ inode' = inode
          /\ task' = [task EXCEPT ![t].pc = "copy", ![t].handle = h, ![t].i = 0]
    /\ UNCHANGED <<configFile, config, main, data, jobs,
                   schedStarted, serving, adminUp, response>>

\* the file after chunk c is written at offset k (counted in chunks)
WriteAt(content, k, c) ==
    IF k < Len(content) THEN [content EXCEPT ![k + 1] = c] ELSE Append(content, c)

\* lines 257-260: the next chunk of the body is written at the handle's
\* offset; after the last one the stream ends
Copy(t) ==
    /\ Alive
    /\ task[t].pc = "copy"
    /\ LET h == task[t].handle
           k == task[t].i
       IN /\ inode' = [inode EXCEPT ![h] = WriteAt(inode[h], k, Chunks(task[t].body)[k + 1])]
          /\ task' = IF k + 1 = NChunks
                     THEN [task EXCEPT ![t].pc = "unzip", ![t].i = 0]
                     ELSE [task EXCEPT ![t].i = k + 1]
    /\ UNCHANGED <<configFile, config, main, tmp, data, jobs,
                   schedStarted, serving, adminUp, response>>

\* line 259: `i?`, the stream yields an error
StreamError(t) ==
    /\ Alive
    /\ task[t].pc = "copy"
    /\ LET tk == Finished(task, t, "fetch_err")
       IN /\ task' = tk
          /\ inode' = Collect(inode, tmp, tk)
    /\ UNCHANGED <<configFile, config, main, tmp, data, jobs,
                   schedStarted, serving, adminUp, response>>

----------------------------------------------------------------------------
(* unzip *)

\* zip::ZipArchive::new: the central directory is read from the end of the
\* file; a file that does not end in the last chunk of a zip archive is none
ParseArchive(content) ==
    IF Len(content) = NChunks /\ content[NChunks] \in ValidBodies
    THEN Some(content[NChunks]) ELSE None

\* ZipFile::enclosed_name: None for a name with a root component or one
\* whose `..` components lead above the directory
RECURSIVE Depth(_, _)
Depth(name, d) ==
    IF d < 0 THEN -1
    ELSE IF name = << >> THEN d
    ELSE IF Head(name) = "/" THEN -1
    ELSE IF Head(name) = ".." THEN Depth(Tail(name), d - 1)
    ELSE Depth(Tail(name), d + 1)

\* mutant of EnclosedName: every name is taken as it is
EnclosedNameUnchecked(name) == Some(name)

EnclosedName(name) == IF Depth(name, 0) < 0 THEN None ELSE Some(name)

\* fs::create_dir_all(p): p and the directories above it
DirsOf(p) == { SubSeq(p, 1, k) : k \in 1..Len(p) }

Parent(p) == SubSeq(p, 1, Len(p) - 1)

\* mutant of UnzipNew: a file that is no archive makes the sync remove every
\* file of the temporary directory
UnzipNewEmptiesTmp(t) ==
    /\ Alive
    /\ task[t].pc = "unzip"
    /\ LET archive == ParseArchive(inode[task[t].handle])
           tk == IF archive.some
                 THEN [task EXCEPT ![t].pc = "extract", ![t].archive = archive.val, ![t].i = 1]
                 ELSE Finished(task, t, "install_err")
           tm == IF archive.some THEN tmp ELSE [m \in Names |-> NoFile]
       IN /\ task' = tk
          /\ tmp' = tm
          /\ inode' = Collect(inode, tm, tk)
    /\ UNCHANGED <<configFile, config, main, data, jobs,
                   schedStarted, serving, adminUp, response>>

\* lines 262-266 and 293: the handle becomes a std file and the archive is opened
UnzipNew(t) ==
    /\ Alive
    /\ task[t].pc = "unzip"
    /\ LET archive == ParseArchive(inode[task[t].handle])
           tk == IF archive.some
                 THEN [task EXCEPT ![t].pc = "extract", ![t].archive = archive.val, ![t].i = 1]
                 ELSE Finished(task, t, "install_err")
       IN /\ task' = tk
          /\ inode' = Collect(inode, tmp, tk)
    /\ UNCHANGED <<configFile, config, main, tmp, data, jobs,
                   schedStarted, serving, adminUp, response>>

\* mutant of Extracted: writing an entry clears what else the directory held
ExtractedReplacing(dir, e) ==
    LET out == EnclosedName(e.name)
    IN  IF ~out.some THEN dir
        ELSE IF e.slash
        THEN [dir EXCEPT !.exists = TRUE, !.dirs = DirsOf(out.val)]
        ELSE [dir EXCEPT !.exists = TRUE, !.dirs = DirsOf(Parent(out.val)),
                         !.files = [p \in FilePaths |->
                                       IF p = out.val THEN e.bytes ELSE Absent]]

\* lines 298-311: the directory after entry e is written under it;
\* create_dir_all makes every missing directory down to the target
Extracted(dir, e) ==
    LET out == EnclosedName(e.name)
    IN  IF ~out.some THEN dir
        ELSE IF e.slash
        THEN [dir EXCEPT !.exists = TRUE, !.dirs = @ \cup DirsOf(out.val)]
        ELSE [dir EXCEPT !.exists = TRUE, !.dirs = @ \cup DirsOf(Parent(out.val)),
                         !.files[out.val] = e.bytes]

\* line 296: by_index reads the entry from the file as it is now, which
\* fails once another body has been written over the archive
Readable(content, b) == content = Chunks(b)

\* lines 295-312: one turn of the loop over the archive's entries
Extract(t) ==
    /\ Alive
    /\ task[t].pc = "extract"
    /\ LET m == task[t].mirror
           b == task[t].archive
           e == Entries(b)[task[t].i]
           readable == Readable(inode[task[t].handle], b)
           tk == IF readable
                 THEN IF task[t].i = Len(Entries(b))
                      THEN [task EXCEPT ![t].pc = "cleanup", ![t].archive = NoBody, ![t].i = 0]
                      ELSE [task EXCEPT ![t].i = @ + 1]
                 ELSE Finished(task, t, "install_err")
       IN /\ task' = tk
          /\ data' = IF readable
                     THEN [data EXCEPT ![m] = Extracted(data[m], e)]
                     ELSE data
          /\ inode' = Collect(inode, tmp, tk)
    /\ UNCHANGED <<configFile, config, main, tmp, jobs,
                   schedStarted, serving, adminUp, response>>

\* lines 309-310: `fs::File::create(&out_path)?` or `io::copy(..)?` is an Err
\* (the file system refuses the file); unzip returns it
ExtractError(t) ==
    /\ Alive
    /\ task[t].pc = "extract"
    /\ LET e == Entries(task[t].archive)[task[t].i]
           tk == Finished(task, t, "install_err")
       IN /\ EnclosedName(e.name).some
          /\ ~e.slash
          /\ Readable(inode[task[t].handle], task[t].archive)
          /\ task' = tk
          /\ inode' = Collect(inode, tmp, tk)
    /\ UNCHANGED <<configFile, config, main, tmp, data, jobs,
                   schedStarted, serving, adminUp, response>>

\* lines 268-270: `remove_file(filepath).await?`, then Ok
Cleanup(t) ==
    /\ Alive
    /\ task[t].pc = "cleanup"
    /\ LET m == task[t].mirror
           tm == [tmp EXCEPT ![m] = NoFile]
           tk == Finished(task, t, IF tmp[m] = NoFile THEN "remove_err" ELSE "ok")
       IN /\ tmp' = tm
          /\ task' = tk
          /\ inode' = Collect(inode, tm, tk)
    /\ UNCHANGED <<configFile, config, main, data, jobs,
                   schedStarted, serving, adminUp, response>>

----------------------------------------------------------------------------
(* Admin handler *)

\* HeaderValue::to_str: Err unless every byte is visible ASCII or a tab
VisibleAscii(byte) == (byte >= 32 /\ byte < 127) \/ byte = 9
ToStr(value) ==
    IF \A k \in 1..Len(value) : VisibleAscii(value[k]) THEN Some(value) ELSE None

StartsWith(str, prefix) ==
    Len(str) >= Len(prefix) /\ SubSeq(str, 1, Len(prefix)) = prefix

StripPrefix(str, prefix) ==
    IF StartsWith(str, prefix) THEN Some(SubSeq(str, Len(prefix) + 1, Len(str))) ELSE None

\* lines 274-279: the first mirror of the configuration with this name
FindMirror(cfg, name) ==
    IF \E k \in 1..Len(cfg.mirrors) : cfg.mirrors[k].name = name
    THEN Some(name) ELSE None

Reply(status, sync) == [status |-> status, sync |-> sync]

\* lines 166-187: the Authorization check
Authorized(req) ==
    IF ~req.auth.some THEN Reply(StatusForbidden, None)
    ELSE IF ~ToStr(req.auth.val).some THEN Reply(NoResponse, None)
    ELSE IF Bearer \o Token # ToStr(req.auth.val).val THEN Reply(StatusForbidden, None)
    ELSE Reply(StatusOK, None)

\* mutant of Routed: the mirror is looked up and its sync spawned before the
\* method is checked
RoutedSpawnsFirst(cfg, req) ==
    IF ~StartsWith(req.path, SyncPrefix) THEN Reply(StatusNotFound, None)
    ELSE IF ~FindMirror(cfg, StripPrefix(req.path, SyncPrefix).val).some
         THEN Reply(StatusNotFound, None)
    ELSE IF req.method # "POST"
         THEN Reply(StatusMethodNotAllowed,
                    FindMirror(cfg, StripPrefix(req.path, SyncPrefix).val))
    ELSE Reply(StatusOK, FindMirror(cfg, StripPrefix(req.path, SyncPrefix).val))

\* lines 189-221 and 273-287: method, path and mirror name; `sync` is the
\* mirror whose sync try_sync_by_name spawns
Routed(cfg, req) ==
    IF req.method # "POST" THEN Reply(StatusMethodNotAllowed, None)
    ELSE IF ~StartsWith(req.path, SyncPrefix) THEN Reply(StatusNotFound, None)
    ELSE IF ~StripPrefix(req.path, SyncPrefix).some THEN Reply(StatusNotFound, None)
    ELSE IF ~FindMirror(cfg, StripPrefix(req.path, SyncPrefix).val).some
         THEN Reply(StatusNotFound, None)
    ELSE Reply(StatusOK, FindMirror(cfg, StripPrefix(req.path, SyncPrefix).val))

\* lines 165-222: the reply to a request
Handle(cfg, req) ==
    IF Authorized(req).status # StatusOK THEN Authorized(req) ELSE Routed(cfg, req)

\* lines 165-222: admin_handler serves one request
AdminHandler(req) ==
    /\ Alive
    /\ adminUp
    /\ LET r == Handle(config, req)
       IN IF r.sync.some
          THEN /\ FreeSlot # 0
               /\ task' = Spawned(task, FreeSlot, MirrorOf(config, r.sync.val))
               /\ response' = [status |-> r.status, spawned |-> FreeSlot]
          ELSE /\ task' = task
               /\ response' = [status |-> r.status, spawned |-> 0]
    /\ UNCHANGED <<configFile, config, main, tmp, inode, data, jobs,
                   schedStarted, serving, adminUp>>

----------------------------------------------------------------------------
(* Specification *)

SyncStep(t) ==
    \/ Fetch(t)
    \/ RemoveStale(t)
    \/ Open(t)
    \/ Copy(t)
    \/ StreamError(t)
    \/ UnzipNew(t)
    \/ Extract(t)
    \/ ExtractError(t)
    \/ Cleanup(t)

\* the program without an admin server
NextPlain ==
    \/ LoadConfig
    \/ InitMirror
    \/ StartAdmin
    \/ StartScheduler
    \/ CtrlC
    \/ \E m \in Names : SchedulerTick(m)
    \/ \E t \in Slots : SyncStep(t)

Next ==
    \/ NextPlain
    \/ \E req \in Requests : AdminHandler(req)

\* the program under a configuration without admin_server: syncs are
\* triggered at startup and by the scheduler
InitSync == Init /\ configFile \in PlainConfigFiles
SpecSync == InitSync /\ [][NextPlain]_vars

\* the program under a configuration with admin_server
InitAdmin == Init /\ configFile \in AdminConfigFiles
SpecAdmin == InitAdmin /\ [][Next]_vars

----------------------------------------------------------------------------
(* Properties *)

\* the syncs of mirror m that are in progress
SyncsOf(m) == { t \in Slots : InFlight(t) /\ task[t].mirror = m }

\* the step is one of sync t: the future was in flight and moved
StepOf(t) == InFlight(t) /\ task'[t] # task[t]

\* the mirrors of the loaded configuration
Known(m) == \E k \in 1..Len(config.mirrors) : config.mirrors[k].name = m

\* C1: for every mirror, at most one sync of it is in progress in every
\* reachable state, whatever triggered the syncs.
C1_AtMostOneSync == \A m \in Names : Cardinality(SyncsOf(m)) <= 1

\* a request the admin handler accepts for mirror m: the exact bearer token,
\* POST, and the path /sync/<m> of a configured mirror
ValidFor(req, m) ==
    /\ req.auth = Some(Bearer \o Token)
    /\ req.method = "POST"
    /\ req.path = SyncPrefix \o m
    /\ Known(m)

\* C2: a valid POST /sync/<m> that arrives while a sync of m is in progress
\* starts no sync and is answered with a 4xx status, not 200.
C2_BusyRejected ==
    [][\A req \in Requests : \A m \in Names :
          (ValidFor(req, m) /\ SyncsOf(m) # {} /\ AdminHandler(req))
              => (task' = task /\ response'.status \in 400..499)]_vars

\* the serving directory after every entry of archive b is extracted into it
RECURSIVE InstalledFrom(_, _, _)
InstalledFrom(dir, b, k) ==
    IF k > Len(Entries(b)) THEN dir
    ELSE InstalledFrom(Extracted(dir, Entries(b)[k]), b, k + 1)

Installed(dir, b) == InstalledFrom(dir, b, 1)

\* C3: a served directory changes only from one complete extraction to the
\* next: whenever a step changes data/<m>, the new content is the old one
\* with a whole archive installed, never with only some of its entries.
C3_NoPartialContent ==
    [][\A m \in Names :
          (m \in serving /\ data[m].exists /\ data'[m] # data[m])
              => \E b \in ValidBodies : data'[m] = Installed(data[m], b)]_vars

\* the positions of sync_intl up to the end of the download
FetchPcs == {"start", "remove", "open", "copy"}

\* C4: a sync attempt whose fetch fails leaves every serving directory as
\* it was: no step of a sync that is still fetching, the failing one
\* included, changes a file of data/ or adds one.
C4_FailedFetchKeepsServingDir ==
    [][\A t \in Slots :
          (StepOf(t) /\ task[t].pc \in FetchPcs) => data' = data]_vars

\* C4 witness: a fetch has failed for a mirror whose directory holds files.
C4_Witness ==
    \E t \in Slots :
        /\ task[t].pc = "fetch_err"
        /\ data[task[t].mirror].files[PathA] # Absent

\* C5: once no sync of mirror m is in flight, tmp/<m>.zip does not exist,
\* however the attempts ended.
C5_NoLeftoverTempFile ==
    \A m \in Names : SyncsOf(m) = {} => tmp[m] = NoFile

\* the status the admin handler is to give, by the first failing check in
\* the order authorization, method, path, mirror name
ExpectedStatus(req) ==
    IF req.auth # Some(Bearer \o Token) THEN StatusForbidden
    ELSE IF req.method # "POST" THEN StatusMethodNotAllowed
    ELSE IF ~\E m \in Names : req.path = SyncPrefix \o m /\ Known(m) THEN StatusNotFound
    ELSE StatusOK

\* C6: the status of every admin reply is the one of the first failing
\* check: 403 for a missing or unequal Authorization value, else 405 for a
\* method other than POST, else 404 for a path that is not /sync/<name> of a
\* configured mirror, else 200.
C6_StatusByFirstFailingCheck ==
    [][\A req \in Requests :
          AdminHandler(req) => response'.status = ExpectedStatus(req)]_vars

\* C7: an accepted request is answered 200 while the sync it triggered is
\* only starting (the reply does not wait for it), and no later step of a
\* sync, whether it succeeds or fails, changes the reply.
C7_RepliesBeforeSyncEnds ==
    [][/\ \A req \in Requests : \A m \in Names :
            (ValidFor(req, m) /\ AdminHandler(req))
                => /\ response'.status = StatusOK
                   /\ response'.spawned \in Slots
                   /\ task'[response'.spawned].pc = "start"
                   /\ task'[response'.spawned].mirror = m
       /\ \A t \in Slots : StepOf(t) => response' = response]_vars

\* C7 witness: 200 has been returned and the sync it started is still
\* extracting.
C7_Witness ==
    /\ response.status = StatusOK
    /\ response.spawned \in Slots
    /\ task[response.spawned].pc = "extract"

\* what mirror m owns on disk and in the runtime: its serving directory, its
\* temporary file and the syncs of it with the files they hold
Untouched(m) ==
    /\ data'[m] = data[m]
    /\ tmp'[m] = tmp[m]
    /\ tmp[m] # NoFile => inode'[tmp[m]] = inode[tmp[m]]
    /\ \A u \in Slots :
          task[u].mirror = m =>
              /\ task'[u] = task[u]
              /\ task[u].handle # NoFile => inode'[task[u].handle] = inode[task[u].handle]

\* C8: a step of a sync of mirror m, a failing one included, does not end
\* the process and leaves every other mirror's serving directory, temporary
\* file and syncs as they were; and a sync in flight of a running process
\* can always take its next step, whatever failed elsewhere.
C8_FailureIsolated ==
    /\ [](\A u \in Slots : (Alive /\ InFlight(u)) => ENABLED SyncStep(u))
    /\ [][\A t \in Slots :
             StepOf(t) =>
                 /\ main' = main
                 /\ \A m \in Names \ {task[t].mirror} : Untouched(m)]_vars

\* C8 witness: a sync of one mirror has failed in its fetch or its install
\* and a sync of another mirror has completed.
C8_Witness ==
    \E t \in Slots : \E u \in Slots :
        /\ task[t].pc \in {"fetch_err", "install_err"}
        /\ task[u].pc = "ok"
        /\ task[u].mirror # task[t].mirror

\* C9: a sync that fetched a valid archive with status 200 and extracted all
\* of it completes successfully.
C9_ValidArchiveCompletes ==
    [][\A t \in Slots :
          (StepOf(t) /\ task[t].pc = "cleanup" /\ task[t].body \in ValidBodies)
              => task'[t].pc = "ok"]_vars

\* C10: when a sync completes successfully, every file entry of the archive
\* it fetched (with a name inside the directory) is under data/<m> at its
\* path with the archive's bytes, below the directories of its path.
C10_ArchivePresentOnSuccess ==
    [][\A t \in Slots :
          (StepOf(t) /\ task'[t].pc = "ok")
              => \A k \in 1..Len(Entries(task[t].body)) :
                    LET e == Entries(task[t].body)[k]
                        dir == data'[task[t].mirror]
                    IN  (~e.slash /\ EnclosedName(e.name).some)
                            => /\ dir.files[e.name] = e.bytes
                               /\ DirsOf(Parent(e.name)) \subseteq dir.dirs]_vars

\* the paths of the model that name a place outside the directory they are
\* joined to: an absolute one, and one that starts by going up
Escaping(p) == p # << >> /\ Head(p) \in {"/", ".."}

\* C11: extraction writes nothing outside data/<m>: no file is ever at a
\* path that leaves the directory, and the turn of unzip's loop that reads an
\* entry with such a name (a root component, or `..` above the directory)
\* changes no directory and goes on to the next entry of the same archive.
C11_EscapingEntrySkipped ==
    /\ [](\A m \in Names : \A p \in FilePaths :
            Escaping(p) => data[m].files[p] = Absent)
    /\ [][\A t \in Slots :
             (/\ StepOf(t)
              /\ task[t].pc = "extract"
              /\ Escaping(Entries(task[t].archive)[task[t].i].name)
              /\ Readable(inode[task[t].handle], task[t].archive))
                 => /\ data' = data
                    /\ task'[t].pc = "extract"
                    /\ task'[t].archive = task[t].archive
                    /\ task'[t].i = task[t].i + 1]_vars

\* C11 witness: a sync is done with an archive that has two escaping entries
\* before its last file, and that last file is installed.
C11_Witness ==
    \E t \in Slots :
        /\ task[t].pc = "cleanup"
        /\ task[t].body = "A2"
        /\ data[task[t].mirror].files[PathA] = "a2"
        /\ data[task[t].mirror].files[PathEscape] = Absent
        /\ data[task[t].mirror].files[PathRooted] = Absent

\* mirror.yml is unreadable, unparsable or declares no mirror
BadConfig == configFile.kind # "parsed" \/ Len(configFile.cfg.mirrors) = 0

\* C12: under an unreadable or unparsable configuration or one without
\* mirrors, the only step main_intl takes is the one to exit(1), and in every
\* state no serving directory exists, no sync was spawned, no job is
\* registered, the scheduler is not started and no server is bound.
C12_BadConfigStopsStartup ==
    /\ [](BadConfig =>
            /\ main.pc \in {"load", "exit1"}
            /\ \A m \in Names : ~data[m].exists /\ tmp[m] = NoFile
            /\ \A t \in Slots : task[t] = NoTask
            /\ jobs = {}
            /\ ~schedStarted
            /\ serving = {}
            /\ ~adminUp)
    /\ [][(BadConfig /\ main.pc = "load") => main'.pc = "exit1"]_vars

\* C12 witness: startup has failed on a configuration that parses and has
\* no mirror.
C12_Witness ==
    /\ main.pc = "exit1"
    /\ configFile = Parsed(Config(<< >>, FALSE))

\* sync u has created its temporary file and is downloading into it or
\* extracting from it
HoldsTemp(u) == task[u].pc \in {"copy", "unzip", "extract"}

\* C13: while a sync is downloading into the temporary file it created or
\* extracting from it, no step of another sync removes that file from its
\* path, opens it or writes to it.
C13_TempFileExclusive ==
    [][\A t \in Slots : \A u \in Slots \ {t} :
          (StepOf(t) /\ HoldsTemp(u))
              => LET m == task[u].mirror
                     h == task[u].handle
                 IN  /\ tmp[m] = h => tmp'[m] = h
                     /\ task[t].handle # h => task'[t].handle # h
                     /\ inode'[h] = inode[h]]_vars

\* C14: when the last remove_file of a sync fails (the path names no file
\* any more) after every entry was extracted, the sync still ends as a
\* success, with no error logged, and the serving directory is left as the
\* extraction made it.
C14_RemoveFailureTolerated ==
    [][\A t \in Slots :
          (StepOf(t) /\ task[t].pc = "cleanup" /\ tmp[task[t].mirror] = NoFile)
              => (task'[t].pc = "ok" /\ data' = data)]_vars

\* C15: the step that receives the source's answer either goes on with the
\* body of an answer whose status is exactly 200, or ends the attempt as a
\* fetch failure; in both cases it leaves every temporary file and serving
\* directory as they were. So an attempt that removes, opens or writes the
\* temporary file or runs the installer holds the body of a 200 answer.
C15_OnlyStatus200Proceeds ==
    /\ [][\A t \in Slots :
             (StepOf(t) /\ task[t].pc = "start")
                 => /\ tmp' = tmp /\ inode' = inode /\ data' = data
                    /\ \/ task'[t].pc = "fetch_err"
                       \/ \E r \in Responses(task[t].source) :
                             /\ r.ok
                             /\ r.status = 200
                             /\ task'[t].pc = "remove"
                             /\ task'[t].body = r.body]_vars
    /\ [](\A t \in Slots :
            task[t].pc \in InFlightPcs \ {"start"} => task[t].body \in Bodies)

\* C15 witness: an attempt has ended as a fetch failure at the status check
\* of a mirror that was never downloaded: no temporary file, an empty
\* serving directory.
C15_Witness ==
    \E t \in Slots :
        /\ task[t].pc = "fetch_err"
        /\ tmp[task[t].mirror] = NoFile
        /\ \A p \in FilePaths : data[task[t].mirror].files[p] = Absent
        /\ \A u \in Slots : ~InFlight(u)

\* a sync has put a file into data/<m>
Populated(m) == \E p \in FilePaths : data[m].files[p] # Absent

\* C16: whenever the content server of a mirror is bound and accepting
\* requests, a sync has completed an extraction into its serving directory:
\* the directory it serves from is populated.
C16_PopulatedBeforeServing ==
    \A m \in serving : Populated(m)

\* sync t is at a file entry of its archive named p
AtFileEntry(t, p) ==
    /\ task[t].pc = "extract"
    /\ Entries(task[t].archive)[task[t].i].name = p
    /\ ~Entries(task[t].archive)[task[t].i].slash

\* C17: no step deletes anything under data/<m>: directories stay, and a
\* file changes only in the turn of a sync of m that extracts the entry of
\* that path, to the bytes of the entry; every other file, those of earlier
\* archives included, keeps its content whether the sync goes on or fails.
C17_ExtractionOnlyWrites ==
    [][\A m \in Names :
          /\ data[m].exists => data'[m].exists
          /\ data[m].dirs \subseteq data'[m].dirs
          /\ \A p \in FilePaths :
                data'[m].files[p] # data[m].files[p]
                    => \E t \in Slots :
                          /\ StepOf(t)
                          /\ task[t].mirror = m
                          /\ AtFileEntry(t, p)
                          /\ data'[m].files[p] = Entries(task[t].archive)[task[t].i].bytes]_vars

\* C17 witness: the second archive (d/ and a) was installed over the first
\* (a and sub/b) and sub/b is still there with the first one's bytes.
C17_Witness ==
    \E m \in Names :
        /\ data[m].files[PathA] = "a2"
        /\ data[m].files[PathSubB] = "b1"
        /\ PathD \in data[m].dirs
        /\ PathSub \in data[m].dirs
        /\ SyncsOf(m) = {}

\* the step starts exactly one sync, of mirror m, and touches no other future
StartsSyncOf(m) ==
    \E t \in Slots :
        /\ ~InFlight(t)
        /\ task'[t].pc = "start"
        /\ task'[t].mirror = m
        /\ \A u \in Slots \ {t} : task'[u] = task[u]

\* m is a configured mirror without a `sync` expression
Unscheduled(m) ==
    \E k \in 1..Len(config.mirrors) :
        config.mirrors[k].name = m /\ ~config.mirrors[k].sync

\* C18: a mirror without a schedule has no scheduler job and no scheduler
\* run ever starts a sync of it; the startup loop starts a sync of every
\* mirror, scheduled or not; and a valid POST /sync/<m> is answered 200 and
\* starts a sync of m, scheduled or not.
C18_UnscheduledStillSynced ==
    /\ [](\A m \in Names : Unscheduled(m) => m \notin jobs)
    /\ [][/\ \A m \in Names : SchedulerTick(m) => ~Unscheduled(m)
          /\ InitMirror => StartsSyncOf(config.mirrors[main.i].name)
          /\ \A req \in Requests : \A m \in Names :
                (ValidFor(req, m) /\ AdminHandler(req))
                    => (response'.status = 200 /\ StartsSyncOf(m))]_vars

\* C18 witness: with the scheduler running, the admin handler has answered
\* 200 and started a sync of a mirror that has no schedule and no job.
C18_Witness ==
    /\ schedStarted
    /\ response.status = 200
    /\ response.spawned \in Slots
    /\ task[response.spawned].pc = "start"
    /\ Unscheduled(task[response.spawned].mirror)
    /\ task[response.spawned].mirror \notin jobs

\* C19: a request served by the admin handler changes no temporary file and
\* no serving directory; answered 200 it starts exactly one sync, of the
\* mirror its path names, and answered otherwise (403, 405, 404, or no
\* response at all) it starts none.
C19_RejectedStartsNothing ==
    [][\A req \in Requests :
          AdminHandler(req)
              => /\ tmp' = tmp
                 /\ inode' = inode
                 /\ data' = data
                 /\ IF response'.status = 200
                    THEN \E m \in Names : req.path = SyncPrefix \o m /\ StartsSyncOf(m)
                    ELSE task' = task]_vars

\* C19 witness: a request was rejected with 405 while a sync was in flight,
\* and no sync was started for it.
C19_Witness ==
    /\ response.status = 405
    /\ response.spawned = 0
    /\ \E t \in Slots : task[t].pc = "extract"

====
